---- MODULE Spec2Model ----
(***************************************************************************)
(* Model of the EtherMail account service: the in-memory task registry     *)
(* (core/task_manager.py), the API-key dependency (core/dependencies.py),  *)
(* the routes, the background orchestrator and the account-creation        *)
(* workflow (core/routes/ether.py), and the remote API client with its     *)
(* retry decorators and token refresh (core/api_client.py).                *)
(*                                                                         *)
(* The service runs on one asyncio event loop: code between two awaits is  *)
(* one atomic step, so every action below is one such stretch of code.     *)
(***************************************************************************)
EXTENDS Integers, Sequences, FiniteSets, TLC

(***************************************************************************)
(* Bounds of the model.                                                    *)
(***************************************************************************)
\* Jobs the registry may hold before the model stops accepting new ones.
MaxTasks == 2
\* Longest proxy list a batch request carries.
MaxProxies == 3
\* Largest count a batch request asks for (the smallest is MinCount).
MaxCount == 3

\* Proxy connection strings clients supply.
Proxies == {"p1", "p2"}
MinCount == 0 - 1

\* The clock when the service starts, and how far the model lets it advance.
StartTime == 100000
MaxTicks == 1
\* Validity, in seconds, of a token the remote service issues at login.
IssuedTokenLifetime == 86400
\* Messages a mailbox search returns at most.
MaxMessages == 1

VARIABLES
    tasks,          \* TaskManager.tasks: task id -> RegistrationTask
    task_counter,   \* TaskManager._task_counter
    bg,             \* task id -> state of the coroutine asyncio.create_task scheduled
    last,           \* the step taken last and the HTTP response it sent, if any
    db,             \* the account store: email -> EtherMailAccount row
    now,            \* the wall clock, in seconds
    em,             \* the GET /emails request in flight and its EthermailAPI client
    credential,     \* the X-API-Key header of the request the step received
    wf,             \* the register_account call in progress and its EthermailAPI client
    up              \* the POST /update_proxies request in flight

registry == <<tasks, task_counter, bg>>
vars == <<tasks, task_counter, bg, last, db, now, em, credential, wf, up>>

(***************************************************************************)
(* core/task_manager.py                                                    *)
(***************************************************************************)
TaskStatus == {"PENDING", "IN_PROGRESS", "COMPLETED", "FAILED"}

\* RegistrationTask.__init__: the attributes a job has, and no others.
RegistrationTask(proxies, count) ==
    [proxies         |-> proxies,
     count           |-> count,
     status          |-> "PENDING",
     created_at      |-> now,
     completed_count |-> 0,
     failed_count    |-> 0,
     results         |-> <<>>,
     errors          |-> <<>>]

\* Line 34 without the counter in the id.
TaskId_Fixed(n) == "task_" \o ToString(1)

\* f"task_{self._task_counter}"
TaskId(n) == "task_" \o ToString(n)

\* get_task with a default: an id the registry does not hold yields a job.
get_task_Default(task_id) ==
    IF task_id \in DOMAIN tasks
    THEN <<tasks[task_id]>>
    ELSE IF DOMAIN tasks # {}
    THEN <<tasks[CHOOSE t \in DOMAIN tasks : TRUE]>>
    ELSE <<>>

\* TaskManager.get_task: dict.get.  An Optional is a sequence of at most one
\* element: <<>> is None, <<task>> is the job.
get_task(task_id) ==
    IF task_id \in DOMAIN tasks THEN <<tasks[task_id]>> ELSE <<>>

\* Python attribute lookup on an object: obj.name raises AttributeError
\* unless the object carries the attribute.
HasAttr(obj, name) == name \in DOMAIN obj

(***************************************************************************)
(* core/schemas.py                                                         *)
(***************************************************************************)
\* CreateMultipleAccountsRequest: proxies (required list), count (int, gt=0).
\* The framework answers 422 before the handler runs when validation fails.
CreateMultipleAccountsRequest(proxies, count) ==
    [proxies |-> proxies, count |-> count]

CountFieldValid(count) == count > 0

\* CreateSingleAccountRequest: proxy (required string).
CreateSingleAccountRequest(proxy) == [proxy |-> proxy]

(***************************************************************************)
(* core/dependencies.py and the route decorators                           *)
(***************************************************************************)
Response(op, request, status, detail) ==
    [op |-> op, request |-> request, status |-> status, detail |-> detail]

\* settings.API_KEY, and the X-API-Key headers clients send: none or an
\* empty one (both falsy to `if not api_key`), the key, another string.
API_KEY == "secret"
ApiKeys == {"", API_KEY, "wrong"}

\* The credential of a step that is not the arrival of a request.
NoRequest == "(no request)"

\* verify_api_key without its second check.
verify_api_key_AnyKey(api_key) ==
    IF api_key = "" THEN <<"No API key provided">> ELSE <<>>

\* verify_api_key: the detail of the HTTPException(403) it raises, <<>> when
\* it returns the key.
verify_api_key(api_key) ==
    IF api_key = ""
    THEN <<"No API key provided">>
    ELSE IF api_key # API_KEY
    THEN <<"Invalid API key">>
    ELSE <<>>

\* The routes of the service (main.py and ether_router): each is declared
\* with dependencies=[Depends(verify_api_key)].
Routes == {"create_accounts", "create_account", "get_task_status",
           "get_accounts", "get_account", "get_emails", "update_proxies",
           "get_service_status"}

\* The dependency returned: the handler runs.
Depends(api_key, handler) ==
    /\ verify_api_key(api_key) = <<>>
    /\ credential' = api_key
    /\ handler

\* The dependency raised: the framework answers 403 and the handler, its
\* request body and its other dependencies are never evaluated.
forbidden(route, api_key) ==
    /\ verify_api_key(api_key) # <<>>
    /\ credential' = api_key
    /\ last' = Response("verify_api_key", route, 403, verify_api_key(api_key)[1])
    /\ UNCHANGED <<registry, db, now, em, wf, up>>

\* A step of a coroutine already running: no request arrives.
Internal(step) ==
    /\ credential' = NoRequest
    /\ step

(***************************************************************************)
(* core/routes/ether.py: the creation routes                               *)
(***************************************************************************)

\* `if not request.proxies`
NoProxies(request) == Len(request.proxies) = 0

\* Line 119 off by one.
NotEnoughProxies_OffByOne(request) ==
    request.count > Len(request.proxies) + 1

\* `if request.count > len(request.proxies)`
NotEnoughProxies(request) == request.count > Len(request.proxies)

\* POST /create_accounts.  Line 122 reads request.delay_sec, an attribute the
\* request schema does not declare, and passes a third positional argument
\* that TaskManager.create_task does not take: either way the call raises
\* before create_task's body runs, and the framework answers 500.
create_accounts(proxies, count) ==
    LET request == CreateMultipleAccountsRequest(proxies, count) IN
    /\ UNCHANGED <<tasks, task_counter, bg, db, now, em, wf, up>>
    /\ last' =
         IF ~CountFieldValid(count)
         THEN Response("create_accounts", request, 422, "count: greater than 0")
         ELSE IF NoProxies(request)
         THEN Response("create_accounts", request, 400, "No proxies provided")
         ELSE IF NotEnoughProxies(request)
         THEN Response("create_accounts", request, 400,
                       "Not enough proxies for requested account count")
         ELSE IF ~HasAttr(request, "delay_sec")
         THEN Response("create_accounts", request, 500, "AttributeError")
         ELSE Response("create_accounts", request, 500, "TypeError")

\* POST /create_account: create_task([request.proxy], 1), then
\* asyncio.create_task(process_registration_task(task_id, db)); no await
\* in between, so the job is registered and its coroutine scheduled in one step.
create_account(proxy) ==
    LET request == CreateSingleAccountRequest(proxy)
        task_id == TaskId(task_counter + 1) IN
    /\ task_counter < MaxTasks
    /\ task_counter' = task_counter + 1
    /\ tasks' = (task_id :> RegistrationTask(<<request.proxy>>, 1)) @@ tasks
    /\ bg' = (task_id :> "scheduled") @@ bg
    /\ last' = Response("create_account", request, 200, task_id)
    /\ UNCHANGED <<db, now, em, wf, up>>

(***************************************************************************)
(* core/routes/ether.py: GET /task/{task_id}                               *)
(***************************************************************************)
\* Line 163 without its condition: the results are always exposed.
TaskStatusResponse_ResultsAlways(task) ==
    [status      |-> task.status,
     created_at  |-> task.created_at,
     total       |-> task.count,
     completed   |-> task.completed_count,
     failed      |-> task.failed_count,
     in_progress |-> task.count - (task.completed_count + task.failed_count),
     results     |-> <<task.results>>,
     errors      |-> IF task.errors # <<>> THEN <<task.errors>> ELSE <<>>]

\* Lines 156-165: the snapshot of a job.  results and errors are Optional:
\* <<>> is None, <<list>> is the list.
TaskStatusResponse(task) ==
    [status      |-> task.status,
     created_at  |-> task.created_at,
     total       |-> task.count,
     completed   |-> task.completed_count,
     failed      |-> task.failed_count,
     in_progress |-> task.count - (task.completed_count + task.failed_count),
     results     |-> IF task.status = "COMPLETED" THEN <<task.results>> ELSE <<>>,
     errors      |-> IF task.errors # <<>> THEN <<task.errors>> ELSE <<>>]

\* GET /task/{task_id}: 404 for an id the registry does not hold, the job's
\* snapshot otherwise.  The handler has no await and writes nothing.
get_task_status(task_id) ==
    /\ last' = IF get_task(task_id) = <<>>
               THEN Response("get_task_status", task_id, 404, "Task not found")
               ELSE Response("get_task_status", task_id, 200,
                             TaskStatusResponse(get_task(task_id)[1]))
    /\ UNCHANGED <<registry, db, now, em, wf, up>>

(***************************************************************************)
(* core/routes/ether.py: process_registration_task                         *)
(***************************************************************************)
\* random.shuffle(proxies_for_reg): any permutation of the list, in place.
Shuffles(s) ==
    {[i \in 1..Len(s) |-> s[p[i]]] : p \in Permutations(1..Len(s))}

\* The launch loop: one work item per i in range(task.count) with
\* i < len(proxies_for_reg).
LaunchCount(task) == IF task.count < Len(task.proxies)
                     THEN (IF task.count > 0 THEN task.count ELSE 0)
                     ELSE Len(task.proxies)

\* Line 77 with the wrong member of TaskStatus.
MarkInProgress_Failed(task) == [task EXCEPT !.status = "FAILED"]

\* Line 77: task.status = TaskStatus.IN_PROGRESS
MarkInProgress(task) == [task EXCEPT !.status = "IN_PROGRESS"]

\* The coroutine runs from its first line to its first await in one step:
\* status = IN_PROGRESS, the semaphore, the in-place shuffle of task.proxies,
\* and the launch loop.  Building the first work item evaluates
\* task.delay_sec, which RegistrationTask never sets: the coroutine ends with
\* AttributeError there, before any work item exists and before line 102.
\* (Were the attribute there, the work items would be created and the
\* coroutine would wait in gather; no job of the service carries it.)
process_registration_task(task_id) ==
    /\ task_id \in DOMAIN bg
    /\ bg[task_id] = "scheduled"
    /\ get_task(task_id) # <<>>
    /\ \E shuffled \in Shuffles(get_task(task_id)[1].proxies) :
         LET task == [MarkInProgress(get_task(task_id)[1])
                          EXCEPT !.proxies = shuffled] IN
         IF LaunchCount(task) = 0
         THEN \* asyncio.gather() of nothing is done at once: line 102 follows.
              /\ tasks' = [tasks EXCEPT ![task_id] =
                               [task EXCEPT !.status = "COMPLETED"]]
              /\ bg' = [bg EXCEPT ![task_id] = "returned"]
         ELSE IF ~HasAttr(task, "delay_sec")
         THEN /\ tasks' = [tasks EXCEPT ![task_id] = task]
              /\ bg' = [bg EXCEPT ![task_id] = "raised"]
         ELSE /\ tasks' = [tasks EXCEPT ![task_id] = task]
              /\ bg' = [bg EXCEPT ![task_id] = "gather"]
    /\ UNCHANGED <<task_counter, db, now, em, wf, up>>
    /\ last' = Response("process_registration_task", task_id, 0, bg'[task_id])

\* Work items process_registration_task handed to asyncio.gather for job t.
Launched(t) ==
    IF bg[t] \in {"gather", "returned"} THEN LaunchCount(tasks[t]) ELSE 0

\* TaskManager.create_task called on its own, with any list and count (the
\* method checks neither), and process_registration_task scheduled for the
\* job as lines 123 and 139 do with a task id.
create_task(proxies, count) ==
    LET task_id == TaskId(task_counter + 1) IN
    /\ task_counter < MaxTasks
    /\ task_counter' = task_counter + 1
    /\ tasks' = (task_id :> RegistrationTask(proxies, count)) @@ tasks
    /\ bg' = (task_id :> "scheduled") @@ bg
    /\ last' = Response("create_task", [proxies |-> proxies, count |-> count],
                        0, task_id)
    /\ UNCHANGED <<db, now, em, wf, up>>


(***************************************************************************)
(* core/database/models.py: the account store                              *)
(***************************************************************************)
\* A string whose letter case matters: str.lower() clears `caps`.
Str(text, caps) == [text |-> text, caps |-> caps]
lower(s) == [s EXCEPT !.caps = FALSE]

\* A JWT as the client reads it: its exp claim (0: absent or zero) and, to
\* tell tokens apart, the time it was issued.
Token(exp, iat) == [exp |-> exp, iat |-> iat]

\* EtherMailAccount: the columns the client reads or writes.
EtherMailAccount(wallet_address, jwt_token, proxy, last_used) ==
    [wallet_address |-> wallet_address,
     email          |-> Str(wallet_address \o "@ethermail.io", TRUE),
     jwt_token      |-> jwt_token,
     proxy          |-> proxy,
     last_used      |-> last_used]

\* select(EtherMailAccount).filter(func.lower(email) == address.lower())
SelectByEmail(address) ==
    {i \in DOMAIN db : lower(db[i].email) = lower(address)}

(***************************************************************************)
(* core/api_client.py: the retry decorators and _request                   *)
(***************************************************************************)
\* stop=stop_after_attempt(3): on _request and on each decorated API call.
StopAfterAttempt == 3

\* What one HTTP exchange comes to: a 2xx JSON answer, a timeout or refused
\* connection, a non-2xx status, a 2xx answer whose body is not JSON.
HttpOutcomes == {"ok", "timeout", "http_status", "bad_json"}

\* _request, lines 144-171: the exception one attempt ends with.
\* TimeoutException/ConnectError are re-raised (168); HTTPStatusError
\* becomes RegistrationError (165); a body that is not JSON raises
\* RegistrationError inside the try (160), re-raised as it is (171).
RequestRaises(outcome) ==
    CASE outcome = "timeout"     -> "TimeoutException"
      [] outcome = "http_status" -> "RegistrationError"
      [] outcome = "bad_json"    -> "RegistrationError"
      [] OTHER                   -> "none"

\* Every exception class of the client derives from Exception.
IsException(exc) ==
    exc \in {"TimeoutException", "ConnectError", "RegistrationError",
             "RetryError", "Exception"}

\* _request: retry_if_exception_type((TimeoutException, ConnectError, Exception)).
RequestRetryIf(exc) ==
    exc \in {"TimeoutException", "ConnectError"} \/ IsException(exc)

\* get_nonce, register, get_communities_ids, onboarding:
\* retry_if_exception_type(Exception).
ApiRetryIf(exc) == IsException(exc)

\* The API calls that carry their own @retry around their call of _request.
Decorated(fn) ==
    fn \in {"get_nonce", "register", "get_communities_ids", "onboarding"}

\* tenacity without reraise=True: when the attempts are used up the caller
\* gets RetryError; an exception the predicate rejects passes through.
AfterLastAttempt(exc, retried) == IF retried THEN "RetryError" ELSE exc

\* The API call in progress: its name, the attempt its own decorator is at,
\* the attempt _request's decorator is at, the requests sent for it so far,
\* what the last one came to, the retry wait it is in, and whether every
\* request of the call so far failed in transport only.
NoCall == [fn |-> "none", outer |-> 0, inner |-> 0, sends |-> 0,
           outcome |-> "none", wait |-> "none", transient |-> TRUE]

\* An API call begins: first attempt of the call, first attempt of _request,
\* and the request goes out (the await at line 151).
StartCall(e, fn) ==
    [e EXCEPT !.pc = "http",
              !.calls = Append(@, fn),
              !.api = [fn |-> fn, outer |-> 1, inner |-> 1, sends |-> 1,
                       outcome |-> "none", wait |-> "none",
                       transient |-> TRUE]]

\* The retry wait (wait_exponential) before the next attempt.
StartWait(e, which) == [e EXCEPT !.pc = "sleep", !.api.wait = which]

\* An exception reaches get_emails' `except Exception`: line 241 answers 500
\* with str(e) as the detail.
Fails(e, error) == [e EXCEPT !.pc = "idle", !.error = error]

\* An exception leaves the body of the API call in progress (its except
\* clause logs and re-raises): the call's own decorator retries it, or it
\* reaches the caller.
ApiRaises(e, exc) ==
    IF Decorated(e.api.fn) /\ ApiRetryIf(exc) /\ e.api.outer < StopAfterAttempt
    THEN StartWait(e, "outer")
    ELSE Fails(e, AfterLastAttempt(exc, Decorated(e.api.fn) /\ ApiRetryIf(exc)))

\* One attempt of _request ended with `exc`.
RequestRaised(e, exc) ==
    IF RequestRetryIf(exc) /\ e.api.inner < StopAfterAttempt
    THEN StartWait(e, "inner")
    ELSE ApiRaises(e, AfterLastAttempt(exc, RequestRetryIf(exc)))

(***************************************************************************)
(* core/api_client.py: set_auth_token and search_emails                    *)
(***************************************************************************)
RefreshMargin == 3600

\* Line 103 with <= for <.
NeedsRefresh_Inclusive(time_left) == time_left <= RefreshMargin

\* `if time_left.total_seconds() < 3600`
NeedsRefresh(time_left) == time_left < RefreshMargin

\* search_emails begins with get_mailboxes.
search_emails(e) == StartCall(e, "get_mailboxes")

\* set_auth_token up to its first await: the exp claim is read without
\* verifying the signature; a token without one is refused; with less than
\* an hour left the refresh starts with get_nonce; otherwise the token goes
\* into the cookie header and the caller goes on (get_emails: search_emails).
set_auth_token(e, token) ==
    IF token.exp = 0
    THEN Fails(e, "Invalid token format: no expiration time")
    ELSE LET time_left == token.exp - now
             e1 == [e EXCEPT !.time_left = <<time_left>>] IN
         IF NeedsRefresh(time_left)
         THEN StartCall(e1, "get_nonce")
         ELSE search_emails([e1 EXCEPT !.cookie = <<token>>])

(***************************************************************************)
(* core/routes/ether.py: GET /emails                                       *)
(***************************************************************************)
\* The client of a request: nothing in flight, empty cookie header.
IdleClient ==
    [pc |-> "idle", address |-> Str("", FALSE), account |-> 0,
     given |-> <<>>, cookie |-> <<>>, time_left |-> <<>>, calls |-> <<>>,
     api |-> NoCall, new_token |-> <<>>, last_used |-> 0,
     msgs_left |-> 0, total |-> 0, error |-> "none"]

\* The step's effect on the client, and the answer when the route is done.
Step(op, e) ==
    /\ em' = e
    /\ last' = IF e.pc = "idle"
               THEN Response("get_emails", e.address,
                             IF e.error = "none" THEN 200 ELSE 500, e.error)
               ELSE Response(op, e.address, 0, "")

\* The request arrives; the handler awaits db.execute(select ...).
get_emails(address) ==
    /\ em.pc = "idle"
    /\ Step("get_emails",
            [IdleClient EXCEPT !.pc = "db_select", !.address = address])
    /\ UNCHANGED <<registry, db, now, wf, up>>

\* The select returns.  No row: HTTPException(404) is raised inside the try
\* block and caught by its `except Exception`.  One row: a client is built and
\* set_auth_token(account.jwt_token, account, db) runs to its first await.
db_select_done ==
    /\ em.pc = "db_select"
    /\ LET found == SelectByEmail(em.address) IN
       IF found = {}
       THEN Step("db_select_done", Fails(em, "404: Account not found"))
       ELSE IF Cardinality(found) > 1
       THEN Step("db_select_done", Fails(em, "MultipleResultsFound"))
       ELSE LET i == CHOOSE i \in found : TRUE IN
            Step("db_select_done",
                 set_auth_token([em EXCEPT !.account = i,
                                           !.given = <<db[i].jwt_token>>],
                                db[i].jwt_token))
    /\ UNCHANGED <<registry, db, now, wf, up>>

\* The API call in progress returned: what its caller does up to the next
\* await.  `n` is the number of messages the search returned that pass the
\* sender and date filters.
ApiReturns(e, n) ==
    CASE e.api.fn = "get_nonce" ->
           \* set_auth_token line 108: register(...)
           StartCall(e, "register")
      [] e.api.fn = "register" ->
           \* lines 114-117: the row is updated, then `await db.commit()`
           [e EXCEPT !.pc = "db_commit",
                     !.new_token = <<Token(now + IssuedTokenLifetime, now)>>,
                     !.last_used = now]
      [] e.api.fn = "get_mailboxes" ->
           StartCall(e, "search_messages")
      [] e.api.fn = "search_messages" ->
           IF n = 0
           THEN [e EXCEPT !.pc = "idle", !.total = 0]
           ELSE StartCall([e EXCEPT !.msgs_left = n, !.total = 0],
                          "get_message_details")
      [] e.api.fn = "get_message_details" ->
           IF e.msgs_left = 1
           THEN [e EXCEPT !.pc = "idle", !.msgs_left = 0, !.total = @ + 1]
           ELSE StartCall([e EXCEPT !.msgs_left = @ - 1, !.total = @ + 1],
                          "get_message_details")

\* The remote service answers the request in flight, or the transport fails.
\* Beside HttpOutcomes: a login answer without a token (register raises
\* RegistrationError, line 271) and a mailbox list without INBOX
\* (search_emails raises, line 366).
http_response(outcome, n) ==
    /\ em.pc = "http"
    /\ outcome \in HttpOutcomes
                   \cup (IF em.api.fn = "register" THEN {"no_token"} ELSE {})
                   \cup (IF em.api.fn = "get_mailboxes" THEN {"no_inbox"} ELSE {})
    /\ n = 0 \/ (outcome = "ok" /\ em.api.fn = "search_messages")
    /\ LET e == [em EXCEPT !.api.outcome = outcome,
                           !.api.transient = @ /\ outcome = "timeout"] IN
       IF RequestRaises(outcome) # "none"
       THEN Step("http_response", RequestRaised(e, RequestRaises(outcome)))
       ELSE IF outcome = "no_token"
       THEN Step("http_response", ApiRaises(e, "RegistrationError"))
       ELSE IF outcome = "no_inbox"
       THEN Step("http_response", Fails(e, "Inbox not found"))
       ELSE Step("http_response", ApiReturns(e, n))
    /\ UNCHANGED <<registry, db, now, wf, up>>

\* The retry wait is over: tenacity calls the function again.  A retry of
\* _request sends the request again; a retry of the API call enters _request
\* anew, with a fresh attempt count, and sends the request again.
retry_wait_done ==
    /\ em.pc = "sleep"
    /\ Step("retry_wait_done",
            [em EXCEPT !.pc = "http",
                       !.api.sends = @ + 1,
                       !.api.outcome = "none",
                       !.api.wait = "none",
                       !.api.inner = IF em.api.wait = "inner" THEN @ + 1 ELSE 1,
                       !.api.outer = IF em.api.wait = "outer" THEN @ + 1 ELSE @])
    /\ UNCHANGED <<registry, db, now, wf, up>>

\* db.commit() returns: the refreshed token is stored; lines 119-121 put it
\* into the cookie header, set_auth_token returns and search_emails begins.
db_commit_done ==
    /\ em.pc = "db_commit"
    /\ db' = [db EXCEPT ![em.account].jwt_token = em.new_token[1],
                        ![em.account].last_used = em.last_used]
    /\ Step("db_commit_done", search_emails([em EXCEPT !.cookie = em.new_token]))
    /\ UNCHANGED <<registry, now, wf, up>>

(***************************************************************************)
(* core/routes/ether.py: the account routes and POST /update_proxies       *)
(***************************************************************************)
\* GET /accounts: every row of the store.
get_accounts ==
    /\ last' = Response("get_accounts", "", 200, db)
    /\ UNCHANGED <<registry, db, now, em, wf, up>>

\* GET /account/{account_id}: the row, or 404.  A row's id is its position.
get_account(account_id) ==
    /\ last' = IF account_id \in DOMAIN db
               THEN Response("get_account", account_id, 200, db[account_id])
               ELSE Response("get_account", account_id, 404, "Account not found")
    /\ UNCHANGED <<registry, db, now, em, wf, up>>

\* UpdateProxiesRequest: proxies (list), validate (optional flag).
UpdateProxiesRequest(proxies, validate) ==
    [proxies |-> proxies, validate |-> validate]

\* The request in flight: the rows selected, the index of the proxy whose
\* validation is awaited, the verdicts validate_proxy gave so far, and the
\* handler's valid_proxies list.
IdleUpdate ==
    [pc |-> "idle", request |-> UpdateProxiesRequest(<<>>, FALSE),
     accounts |-> 0, i |-> 0, verdicts |-> <<>>, valid_proxies |-> <<>>,
     last_used |-> 0]

\* The step's effect on the request, and the answer when the handler is done.
UpStep(op, u, status, detail) ==
    /\ up' = u
    /\ last' = IF u.pc = "idle"
               THEN Response("update_proxies", u.request, status, detail)
               ELSE Response(op, u.request, 0, "")

\* `if len(request.proxies) < len(accounts)`
TooFewProxies(request, accounts) == Len(request.proxies) < accounts

\* Line 278 off by one.
NotEnoughValid_OffByOne(valid_proxies, accounts) ==
    Len(valid_proxies) + 1 < accounts

\* `if len(valid_proxies) < len(accounts)`
NotEnoughValid(valid_proxies, accounts) == Len(valid_proxies) < accounts

\* Lines 278-285, after the validation loop: too few valid proxies are
\* refused; otherwise each selected row takes the proxy at its position
\* (valid_proxies[i] raises IndexError past the end of the list) and the
\* handler awaits db.commit().
assign_proxies(op, u) ==
    IF NotEnoughValid(u.valid_proxies, u.accounts)
    THEN UpStep(op, [u EXCEPT !.pc = "idle"], 400,
                "Not enough valid proxies for the accounts")
    ELSE IF \E k \in 1..u.accounts : k \notin DOMAIN u.valid_proxies
    THEN UpStep(op, [u EXCEPT !.pc = "idle"], 500, "IndexError")
    ELSE UpStep(op, [u EXCEPT !.pc = "db_commit", !.last_used = now], 0, "")

\* The request arrives: an empty proxy list is refused at once, otherwise
\* the handler awaits db.execute(select(EtherMailAccount)).
update_proxies(proxies, validate) ==
    LET request == UpdateProxiesRequest(proxies, validate) IN
    /\ up.pc = "idle"
    /\ IF NoProxies(request)
       THEN UpStep("update_proxies", [IdleUpdate EXCEPT !.request = request],
                   400, "No proxies provided")
       ELSE UpStep("update_proxies",
                   [IdleUpdate EXCEPT !.pc = "db_select", !.request = request],
                   0, "")
    /\ UNCHANGED <<registry, db, now, em, wf>>

\* The select returns every row.  With validation on, the handler awaits
\* validate_proxy for the first proxy; otherwise every proxy is taken as valid.
up_select_done ==
    /\ up.pc = "db_select"
    /\ LET u == [up EXCEPT !.accounts = Len(db)] IN
       IF u.accounts = 0
       THEN UpStep("up_select_done", [u EXCEPT !.pc = "idle"], 404,
                   "No accounts found")
       ELSE IF TooFewProxies(u.request, u.accounts)
       THEN UpStep("up_select_done", [u EXCEPT !.pc = "idle"], 400,
                   "Not enough proxies for the accounts")
       ELSE IF u.request.validate
       THEN UpStep("up_select_done", [u EXCEPT !.pc = "validate_proxy", !.i = 1],
                   0, "")
       ELSE assign_proxies("up_select_done",
                           [u EXCEPT !.valid_proxies = u.request.proxies])
    /\ UNCHANGED <<registry, db, now, em, wf>>

\* core.ip.validate_proxy(proxy) returns its verdict on the proxy awaited.
validate_proxy(ok) ==
    /\ up.pc = "validate_proxy"
    /\ ok \in BOOLEAN
    /\ LET u == [up EXCEPT
                   !.verdicts = Append(@, ok),
                   !.valid_proxies =
                       IF ok THEN Append(@, up.request.proxies[up.i]) ELSE @] IN
       IF up.i < Len(up.request.proxies)
       THEN UpStep("validate_proxy", [u EXCEPT !.i = @ + 1], 0, "")
       ELSE assign_proxies("validate_proxy", u)
    /\ UNCHANGED <<registry, db, now, em, wf>>

\* db.commit() returns: the selected rows carry their new proxies.
up_commit_done ==
    /\ up.pc = "db_commit"
    /\ db' = [k \in DOMAIN db |->
                IF k <= up.accounts
                THEN [db[k] EXCEPT !.proxy = up.valid_proxies[k],
                                   !.last_used = up.last_used]
                ELSE db[k]]
    /\ UpStep("up_commit_done", [up EXCEPT !.pc = "idle"], 200, "")
    /\ UNCHANGED <<registry, now, em, wf>>

(***************************************************************************)
(* core/routes/ether.py: register_account                                  *)
(*                                                                         *)
(* The workflow of one work item.  No job of the service reaches the call  *)
(* at line 84 (see process_registration_task), so the function is checked  *)
(* on its own: called with a proxy and the store, against a remote service *)
(* that answers as it likes.                                               *)
(***************************************************************************)
\* Calls of register_account the model makes.
MaxRegistrations == 1
\* Communities the remote service lists at most.
MaxCommunities == 4

\* Validities the remote service gives the token it issues at login: the
\* usual one, and one inside the refresh margin.
IssuedLifetimes == {IssuedTokenLifetime, RefreshMargin - 1}

\* random.sample(population, k): the k-element selections; none when k
\* exceeds the population (ValueError).
random_sample(population, k) ==
    {S \in SUBSET population : Cardinality(S) = k}

\* onboarding(communities_ids=random.sample(communities_ids, k=3))
OnboardingSampleSize == 3

\* The call in progress: the wallet made for it, the token register
\* returned, the communities listed, those sent to onboarding, onboarding's
\* answer, the row handed to the store, the value returned.
IdleWorkflow ==
    [pc |-> "idle", n |-> 0, proxy |-> "", address |-> "", calls |-> <<>>,
     api |-> NoCall, token |-> <<>>, time_left |-> <<>>, cookie |-> <<>>,
     communities |-> <<>>, sample |-> <<>>, onboarded |-> <<>>,
     account |-> <<>>, result |-> <<>>, error |-> "none"]

\* The step's effect on the call; when it is over, how it ended.
WfStep(op, e) ==
    /\ wf' = e
    /\ last' = IF e.pc = "idle"
               THEN Response("register_account", e.proxy, 0, e.error)
               ELSE Response(op, e.proxy, 0, "")

\* Lines 27-36: the client is built, the wallet created, and get_nonce sends
\* its request.  create_wallet has no await inside and cannot fail here.
register_account(proxy) ==
    /\ wf.pc = "idle"
    /\ wf.n < MaxRegistrations
    /\ WfStep("create_wallet",
              StartCall([IdleWorkflow EXCEPT
                           !.n = wf.n + 1,
                           !.proxy = proxy,
                           !.address = "0xN" \o ToString(wf.n + 1)],
                        "get_nonce"))
    /\ UNCHANGED <<registry, db, now, em, up>>

\* set_auth_token(token, None, db), line 40, and line 41 after it.  With
\* less than an hour left the refresh evaluates account.wallet_address on
\* None: AttributeError, before any request is sent.
set_auth_token_no_account(e, token) ==
    IF token.exp = 0
    THEN Fails(e, "Invalid token format: no expiration time")
    ELSE LET time_left == token.exp - now
             e1 == [e EXCEPT !.time_left = <<time_left>>] IN
         IF NeedsRefresh(time_left)
         THEN Fails(e1, "AttributeError")
         ELSE StartCall([e1 EXCEPT !.cookie = <<token>>], "get_communities_ids")

\* Line 38 with the login left out.
after_get_nonce_NoLogin(e) == StartCall(e, "get_communities_ids")

\* Line 38: register follows get_nonce.
after_get_nonce(e) == StartCall(e, "register")

\* Lines 38-41: the token register returned goes to set_auth_token.
after_register(e, lifetime) ==
    LET token == Token(now + lifetime, now) IN
    set_auth_token_no_account([e EXCEPT !.token = <<token>>], token)

\* Line 43: three of the listed communities are drawn and sent to onboarding.
after_get_communities_ids(e, count, sample) ==
    LET e1 == [e EXCEPT !.communities = <<count>>] IN
    IF random_sample(1..count, OnboardingSampleSize) = {}
    THEN Fails(e1, "ValueError")
    ELSE StartCall([e1 EXCEPT !.sample = <<sample>>], "onboarding")

\* Line 43 with a refused onboarding raising.
after_onboarding_Strict(e, success) ==
    IF success
    THEN [e EXCEPT !.pc = "db_commit", !.onboarded = <<success>>,
                   !.account = <<EtherMailAccount(e.address, e.token[1],
                                                  e.proxy, now)>>]
    ELSE Fails([e EXCEPT !.onboarded = <<success>>], "Error onboarding")

\* Lines 43-59: a false answer is logged and nothing else; the row is built,
\* added to the session, and the handler awaits db.commit().
after_onboarding(e, success) ==
    [e EXCEPT !.pc = "db_commit", !.onboarded = <<success>>,
              !.account = <<EtherMailAccount(e.address, e.token[1],
                                             e.proxy, now)>>]

\* The remote service answers the request in flight, or the transport
\* fails.  A login answer carries the token's validity, a community list
\* its length (and the draw random.sample makes from it), an onboarding
\* answer its success flag.
wf_http_response(outcome, lifetime, count, sample, success) ==
    /\ wf.pc = "http"
    /\ outcome \in HttpOutcomes
                   \cup (IF wf.api.fn = "register" THEN {"no_token"} ELSE {})
    /\ lifetime = IssuedTokenLifetime
          \/ (outcome = "ok" /\ wf.api.fn = "register")
    /\ IF outcome = "ok" /\ wf.api.fn = "get_communities_ids"
       THEN \/ sample \in random_sample(1..count, OnboardingSampleSize)
            \/ (sample = {} /\ random_sample(1..count, OnboardingSampleSize) = {})
       ELSE count = 0 /\ sample = {}
    /\ success \/ (outcome = "ok" /\ wf.api.fn = "onboarding")
    /\ LET e == [wf EXCEPT !.api.outcome = outcome,
                           !.api.transient = @ /\ outcome = "timeout"] IN
       IF RequestRaises(outcome) # "none"
       THEN WfStep("http_response", RequestRaised(e, RequestRaises(outcome)))
       ELSE IF outcome = "no_token"
       THEN WfStep("http_response", ApiRaises(e, "RegistrationError"))
       ELSE CASE e.api.fn = "get_nonce" ->
                   WfStep("http_response", after_get_nonce(e))
              [] e.api.fn = "register" ->
                   WfStep("http_response", after_register(e, lifetime))
              [] e.api.fn = "get_communities_ids" ->
                   WfStep("http_response",
                          after_get_communities_ids(e, count, sample))
              [] e.api.fn = "onboarding" ->
                   WfStep("http_response", after_onboarding(e, success))
    /\ UNCHANGED <<registry, db, now, em, up>>

\* The retry wait is over: the request is sent again (see retry_wait_done).
wf_retry_wait_done ==
    /\ wf.pc = "sleep"
    /\ WfStep("retry_wait_done",
              [wf EXCEPT !.pc = "http",
                         !.api.sends = @ + 1,
                         !.api.outcome = "none",
                         !.api.wait = "none",
                         !.api.inner = IF wf.api.wait = "inner" THEN @ + 1 ELSE 1,
                         !.api.outer = IF wf.api.wait = "outer" THEN @ + 1 ELSE @])
    /\ UNCHANGED <<registry, db, now, em, up>>

\* db.commit() returns: the row is stored; the handler awaits db.refresh.
wf_commit_done ==
    /\ wf.pc = "db_commit"
    /\ db' = Append(db, wf.account[1])
    /\ WfStep("db_commit_done", [wf EXCEPT !.pc = "db_refresh"])
    /\ UNCHANGED <<registry, now, em, up>>

\* db.refresh(account) returns: lines 62-66 return id, wallet and token.
wf_refresh_done ==
    /\ wf.pc = "db_refresh"
    /\ WfStep("db_refresh_done",
              [wf EXCEPT !.pc = "idle",
                         !.result = <<[id |-> Len(db),
                                       wallet_address |-> wf.address,
                                       token |-> wf.token[1]]>>])
    /\ UNCHANGED <<registry, db, now, em, up>>

\* Time passes.
Tick ==
    /\ now < StartTime + MaxTicks
    /\ now' = now + 1
    /\ UNCHANGED <<registry, last, db, em, wf, up>>

(***************************************************************************)
(* The service                                                             *)
(***************************************************************************)
ProxyLists == UNION {[1..n -> Proxies] : n \in 0..MaxProxies}

\* Addresses a client asks mail for: those of the stored accounts, the
\* first in both spellings, and one no account has.
Addresses == {Str("0xA1@ethermail.io", TRUE), Str("0xA1@ethermail.io", FALSE),
              Str("0xB2@ethermail.io", FALSE), Str("0xC3@ethermail.io", FALSE),
              Str("0xD4@ethermail.io", FALSE)}

\* The accounts stored when the service starts.  Their tokens have an hour
\* left, a second more than an hour, and no exp claim.
StoredAccounts ==
    <<EtherMailAccount("0xA1", Token(StartTime + RefreshMargin, 0), "p1", 0),
      EtherMailAccount("0xB2", Token(StartTime + RefreshMargin + 1, 0), "p2", 0),
      EtherMailAccount("0xC3", Token(0, 0), "p1", 0)>>

Init ==
    /\ tasks = <<>>
    /\ task_counter = 0
    /\ bg = <<>>
    /\ last = Response("start", "", 0, "")
    /\ db = StoredAccounts
    /\ now = StartTime
    /\ em = IdleClient
    /\ credential = NoRequest
    /\ wf = IdleWorkflow
    /\ up = IdleUpdate

\* Ids a client polls: those the registry can issue and one it never does.
TaskIds == {TaskId(n) : n \in 1..(MaxTasks + 1)}

\* A request whose credential verify_api_key refuses, on any route.
Refused == \E route \in Routes, api_key \in ApiKeys : forbidden(route, api_key)

\* The task registry, the creation routes, the snapshot route and the
\* orchestrator.
NextTasks ==
    \/ \E api_key \in ApiKeys, proxies \in ProxyLists,
          count \in MinCount..MaxCount :
          Depends(api_key, create_accounts(proxies, count))
    \/ \E api_key \in ApiKeys, proxy \in Proxies :
          Depends(api_key, create_account(proxy))
    \/ \E api_key \in ApiKeys, task_id \in TaskIds :
          Depends(api_key, get_task_status(task_id))
    \/ Refused
    \/ \E task_id \in DOMAIN bg : Internal(process_registration_task(task_id))

\* GET /emails and the remote API client behind it.
NextEmails ==
    \/ \E api_key \in ApiKeys, address \in Addresses :
          Depends(api_key, get_emails(address))
    \/ Refused
    \/ Internal(db_select_done)
    \/ \E outcome \in HttpOutcomes \cup {"no_token", "no_inbox"},
          n \in 0..MaxMessages : Internal(http_response(outcome, n))
    \/ Internal(retry_wait_done)
    \/ Internal(db_commit_done)
    \/ Internal(Tick)

\* The account routes and POST /update_proxies.
NextAccounts ==
    \/ \E api_key \in ApiKeys : Depends(api_key, get_accounts)
    \/ \E api_key \in ApiKeys, account_id \in 1..(Len(db) + 1) :
          Depends(api_key, get_account(account_id))
    \/ \E api_key \in ApiKeys, proxies \in ProxyLists, validate \in BOOLEAN :
          Depends(api_key, update_proxies(proxies, validate))
    \/ Refused
    \/ Internal(up_select_done)
    \/ \E ok \in BOOLEAN : Internal(validate_proxy(ok))
    \/ Internal(up_commit_done)

\* register_account called on its own.
NextWorkflow ==
    \/ \E proxy \in Proxies : Internal(register_account(proxy))
    \/ \E outcome \in HttpOutcomes \cup {"no_token"},
          lifetime \in IssuedLifetimes,
          count \in 0..MaxCommunities,
          sample \in SUBSET (1..MaxCommunities),
          success \in BOOLEAN :
          Internal(wf_http_response(outcome, lifetime, count, sample, success))
    \/ Internal(wf_retry_wait_done)
    \/ Internal(wf_commit_done)
    \/ Internal(wf_refresh_done)

\* The task registry and the orchestrator on their own: jobs made by
\* TaskManager.create_task directly (no route of the service gets a job of
\* more than one proxy as far as the registry, see create_accounts).
NextJobs ==
    \/ \E proxies \in ProxyLists, count \in MinCount..MaxCount :
          Internal(create_task(proxies, count))
    \/ \E task_id \in DOMAIN bg : Internal(process_registration_task(task_id))

\* The parts share no state (no action of one reads or writes a variable
\* of another, `last` and the store apart), so each is checked on its own.
Spec == Init /\ [][NextTasks]_vars

SpecEmails == Init /\ [][NextEmails]_vars

SpecAccounts == Init /\ [][NextAccounts]_vars

SpecWorkflow == Init /\ [][NextWorkflow]_vars

SpecJobs == Init /\ [][NextJobs]_vars

(***************************************************************************)
(* Properties of the task registry and the orchestrator                    *)
(***************************************************************************)
\* The coroutine of job t has ended: it returned or died with an exception.
\* From then on nothing writes the job.
Ended(t) == bg[t] \in {"returned", "raised"}

\* C1: every job created through create_accounts or create_account
\* eventually reaches COMPLETED: a job whose execution has ended is COMPLETED
\* (it cannot change afterwards, so otherwise it stays PENDING or
\* IN_PROGRESS forever).
C1_EveryJobCompletes ==
    \A t \in DOMAIN tasks : Ended(t) => tasks[t].status = "COMPLETED"

StatusRank(status) ==
    CASE status = "PENDING" -> 0
      [] status = "IN_PROGRESS" -> 1
      [] status = "COMPLETED" -> 2
      [] OTHER -> 3

\* C3: a job starts PENDING, its status only moves forward along
\* PENDING -> IN_PROGRESS -> COMPLETED, and FAILED is never assigned, also
\* when the job's execution fails.
C3_StatusForwardOnly ==
    [][\A t \in DOMAIN tasks' :
         /\ tasks'[t].status \in {"PENDING", "IN_PROGRESS", "COMPLETED"}
         /\ IF t \in DOMAIN tasks
            THEN StatusRank(tasks'[t].status) >= StatusRank(tasks[t].status)
            ELSE tasks'[t].status = "PENDING"]_vars

\* C3's case: a job whose execution failed; it is IN_PROGRESS, not FAILED.
C3_Witness ==
    \E t \in DOMAIN tasks : bg[t] = "raised" /\ tasks[t].status = "IN_PROGRESS"

\* A batch request the claim C4 is about.
BadBatch(request) ==
    \/ request.count <= 0
    \/ Len(request.proxies) = 0
    \/ request.count > Len(request.proxies)

\* C4 as claimed: a batch request with a non-positive count, an empty proxy
\* list or a count above the number of proxies is answered 400 and leaves
\* the registry unchanged.
C4_BadBatchRejected400 ==
    [][(last'.op = "create_accounts" /\ BadBatch(last'.request))
          => (last'.status = 400 /\ UNCHANGED registry)]_vars

\* C4 amended: such a request is answered 422 when its count is
\* non-positive (the request schema refuses it before the handler runs) and
\* 400 otherwise; either way no job is added, the task counter is not
\* advanced and no background execution is started.
C4_BadBatchRejected ==
    [][(last'.op = "create_accounts" /\ BadBatch(last'.request))
          => /\ last'.status = IF last'.request.count <= 0 THEN 422 ELSE 400
             /\ UNCHANGED registry]_vars

\* C4's case: a request for more accounts than proxies was answered 400
\* while the registry held a job.
C4_Witness ==
    /\ last.op = "create_accounts"
    /\ Len(last.request.proxies) > 0
    /\ last.request.count > Len(last.request.proxies)
    /\ last.status = 400
    /\ task_counter > 0

\* C6: a failing work item does not abort its siblings, every work item of
\* a job runs to its own outcome: a batch of three is accepted as a job, and
\* a job whose execution has ended has settled each of its `count` items,
\* with one entry in errors per failed item.
C6_SiblingsRunToOutcome ==
    /\ (/\ last.op = "create_accounts"
        /\ last.request.count = 3
        /\ Len(last.request.proxies) = 3) => last.status = 200
    /\ \A t \in DOMAIN tasks :
         Ended(t) => /\ tasks[t].completed_count + tasks[t].failed_count
                          = tasks[t].count
                     /\ Len(tasks[t].errors) = tasks[t].failed_count

\* C7: no update is lost: a job that has ended with no failed work item is
\* COMPLETED with completed_count = count and one result per work item.
C7_NoLostUpdate ==
    \A t \in DOMAIN tasks :
      (Ended(t) /\ tasks[t].failed_count = 0)
         => /\ tasks[t].status = "COMPLETED"
            /\ tasks[t].completed_count = tasks[t].count
            /\ Len(tasks[t].results) = tasks[t].count

\* C21: every work item settles exactly once and no exception of an item
\* leaves process_registration_task: the coroutine of a job never ends with
\* an exception, and when it has ended each of the job's `count` items has
\* incremented exactly one of the two counters, with one entry in results
\* per completed item and one string in errors per failed item.
C21_EachItemSettlesOnce ==
    \A t \in DOMAIN tasks :
      /\ bg[t] # "raised"
      /\ bg[t] = "returned"
            => /\ tasks[t].completed_count + tasks[t].failed_count
                    = tasks[t].count
               /\ Len(tasks[t].results) = tasks[t].completed_count
               /\ Len(tasks[t].errors) = tasks[t].failed_count

\* C23: the orchestrator launches exactly `count` work items: once a job
\* has left PENDING and its launch loop has run, `count` work items have
\* been handed to gather.
C23_LaunchesCountItems ==
    \A t \in DOMAIN tasks :
      (tasks[t].status # "PENDING" /\ bg[t] # "scheduled")
         => Launched(t) = tasks[t].count

\* C24: a job's proxies sequence, count and created_at never change after
\* the job is created; running the orchestrator leaves the proxy sequence
\* in the order in which it was supplied.
C24_JobInputsImmutable ==
    [][\A t \in DOMAIN tasks :
         /\ t \in DOMAIN tasks'
         /\ tasks'[t].proxies = tasks[t].proxies
         /\ tasks'[t].count = tasks[t].count
         /\ tasks'[t].created_at = tasks[t].created_at]_vars

\* C26: task ids are unique: a creation returns an id the registry did not
\* hold, adds one job under it, and leaves every earlier job in the
\* registry, under its id, as it was; no other step adds or removes a job.
C26_TaskIdsUnique ==
    [][/\ \A t \in DOMAIN tasks : t \in DOMAIN tasks'
       /\ last'.op \in {"create_account", "create_task"}
            => /\ last'.detail \notin DOMAIN tasks
               /\ DOMAIN tasks' = DOMAIN tasks \cup {last'.detail}
               /\ \A t \in DOMAIN tasks : tasks'[t] = tasks[t]
       /\ last'.op \notin {"create_account", "create_task"}
            => DOMAIN tasks' = DOMAIN tasks]_vars

\* C26's case: a second job was created; the first is in the registry under
\* its own id, no longer PENDING, and the new one is PENDING.
C26_Witness ==
    /\ last.op = "create_account"
    /\ last.detail = TaskId(2)
    /\ DOMAIN tasks = {TaskId(1), TaskId(2)}
    /\ tasks[TaskId(1)].status = "IN_PROGRESS"
    /\ tasks[TaskId(2)].status = "PENDING"

(***************************************************************************)
(* Properties of the remote API client                                     *)
(***************************************************************************)
\* C8: an API call with its own retry decorator whose requests keep failing
\* with a transient network error sends its request at most 3 times.
C8_AtMostThreeSends ==
    (Decorated(em.api.fn) /\ em.api.transient) => em.api.sends <= 3

\* C9: once a request was answered with a non-2xx status or a body that is
\* not JSON, so that RegistrationError was raised, the request is not sent
\* again.
C9_NoResendAfterApiError ==
    [][em.api.outcome \in {"http_status", "bad_json"}
          => ~(em'.api.sends > em.api.sends)]_vars

Range(seq) == {seq[k] : k \in DOMAIN seq}

\* C10: set_auth_token re-authenticates (nonce fetch, then register) if and
\* only if the token has less than 3600 seconds left: with 3600 or more it
\* calls neither and installs the given token unchanged; with less it
\* starts with the nonce fetch, calls register only after it, and the token
\* it installs is the one register returned.
C10_RefreshIffUnderAnHour ==
    em.time_left # <<>> =>
      LET left == em.time_left[1] IN
      /\ left < 3600 <=> (em.calls # <<>> /\ em.calls[1] = "get_nonce")
      /\ left >= 3600 =>
            /\ Range(em.calls) \cap {"get_nonce", "register"} = {}
            /\ em.cookie = em.given
      /\ \A k \in DOMAIN em.calls :
            em.calls[k] = "register" => (k = 2 /\ em.calls[1] = "get_nonce")
      /\ (left < 3600 /\ em.cookie # <<>>) =>
            /\ em.cookie = em.new_token
            /\ em.cookie # em.given
            /\ Len(em.calls) >= 2 /\ em.calls[2] = "register"

\* C10's case: a token with 3599 seconds left was refreshed and replaced.
C10_Witness ==
    /\ em.time_left = <<3599>>
    /\ em.cookie # <<>>
    /\ em.cookie = em.new_token
    /\ SubSeq(em.calls, 1, 2) = <<"get_nonce", "register">>

\* The other side of C10: a token with exactly 3600 seconds left was
\* installed as it was given.
C10_WitnessKept ==
    /\ em.time_left = <<3600>>
    /\ em.cookie = em.given
    /\ em.cookie # <<>>

\* C31: an email search for an address that matches no stored account is
\* answered 404 "Account not found", the status the handler raised, and no
\* remote API call is made for it.
C31_UnknownAddressIs404 ==
    (/\ last.op = "get_emails"
     /\ em.pc = "idle"
     /\ SelectByEmail(last.request) = {})
       => /\ last.status = 404
          /\ last.detail = "Account not found"
          /\ em.calls = <<>>

(***************************************************************************)
(* Properties of the routes                                                *)
(***************************************************************************)
\* C11: polling an id the registry does not hold is answered 404 and
\* changes no job; polling an id the registry holds is answered, at any
\* point of the job's life, with the snapshot of that job.
C11_PollYieldsSnapshot ==
    [][last'.op = "get_task_status" =>
         /\ UNCHANGED registry
         /\ IF last'.request \in DOMAIN tasks
            THEN /\ last'.status = 200
                 /\ last'.detail.status = tasks[last'.request].status
                 /\ last'.detail.created_at = tasks[last'.request].created_at
                 /\ last'.detail.total = tasks[last'.request].count
                 /\ last'.detail.completed = tasks[last'.request].completed_count
                 /\ last'.detail.failed = tasks[last'.request].failed_count
            ELSE last'.status = 404]_vars

\* C11's case: the first of two jobs was polled after its execution began.
C11_Witness ==
    /\ last.op = "get_task_status"
    /\ last.request = TaskId(1)
    /\ last.status = 200
    /\ last.detail.status = "IN_PROGRESS"
    /\ task_counter = 2

\* The other side of C11: an id never issued was polled while jobs existed.
C11_WitnessUnknown ==
    /\ last.op = "get_task_status"
    /\ last.status = 404
    /\ task_counter > 0

\* C12: a creation request returns its task id without waiting for any
\* work item: when a handler has taken a well-formed request (one account,
\* or a batch with 0 < count <= number of proxies), it answers 200 with the
\* id of a job that is registered right then, PENDING, with zero counters,
\* and whose execution is scheduled but has not run a step.
C12_CreationReturnsTaskId ==
    [][((last'.op = "create_account")
           \/ (last'.op = "create_accounts" /\ ~BadBatch(last'.request)))
          => /\ last'.status = 200
             /\ last'.detail \notin DOMAIN tasks
             /\ last'.detail \in DOMAIN tasks'
             /\ tasks'[last'.detail].status = "PENDING"
             /\ tasks'[last'.detail].completed_count = 0
             /\ tasks'[last'.detail].failed_count = 0
             /\ tasks'[last'.detail].results = <<>>
             /\ tasks'[last'.detail].errors = <<>>
             /\ bg'[last'.detail] = "scheduled"]_vars

\* C14: a request whose credential header is missing or is not the
\* service's key is answered 403 on every route, and nothing it asked for
\* happens: no job, no background execution, no account read or written,
\* no request in flight.
C14_BadCredentialRefused ==
    [][(credential' # NoRequest /\ credential' # API_KEY)
          => /\ last'.status = 403
             /\ last'.request \in Routes
             /\ UNCHANGED <<registry, db, now, em, wf, up>>]_vars

\* C14's case: a creation request with a wrong key was refused while the
\* registry held a job.
C14_Witness ==
    /\ credential = "wrong"
    /\ last.op = "verify_api_key"
    /\ last.request = "create_account"
    /\ last.status = 403
    /\ task_counter > 0

\* C15: the snapshot's results are null unless the job is COMPLETED, and
\* for a COMPLETED job they are exactly the job's results.
C15_ResultsOnlyWhenCompleted ==
    (last.op = "get_task_status" /\ last.status = 200) =>
       last.detail.results = IF tasks[last.request].status = "COMPLETED"
                             THEN <<tasks[last.request].results>>
                             ELSE <<>>

\* C15's case: a job that is IN_PROGRESS was polled; its results are null.
C15_Witness ==
    /\ last.op = "get_task_status"
    /\ last.status = 200
    /\ tasks[last.request].status = "IN_PROGRESS"
    /\ last.detail.results = <<>>

\* C16: the snapshot's in_progress is the number of work items executing
\* their workflow at that moment: it is 0 for a job none of whose work
\* items exists (its execution has not begun, or has ended).
C16_InProgressCountsRunning ==
    (/\ last.op = "get_task_status"
     /\ last.status = 200
     /\ bg[last.request] \in {"scheduled", "returned", "raised"})
       => last.detail.in_progress = 0

(***************************************************************************)
(* Properties of POST /update_proxies                                      *)
(***************************************************************************)
\* Proxies validate_proxy accepted for the request.
Accepted(u) == Cardinality({k \in DOMAIN u.verdicts : u.verdicts[k]})

\* The request brings fewer proxies than there are accounts, or, with
\* validation on, fewer proxies that passed it.
Short(u) ==
    \/ Len(u.request.proxies) < Len(db)
    \/ (u.request.validate /\ Accepted(u) < Len(db))

\* C13: update_proxies with fewer proxies than stored accounts, or with
\* validation on and fewer valid proxies, is answered 400 and no account
\* is changed: the store changes only in answering 200 a request that
\* brought enough.
C13_ShortUpdateRefused ==
    [][/\ (last'.op = "update_proxies" /\ up'.pc = "idle" /\ Short(up'))
            => (last'.status = 400 /\ db' = db)
       /\ db' # db
            => (last'.op = "update_proxies" /\ last'.status = 200 /\ ~Short(up'))]_vars

\* C13's case: three proxies for three accounts, one of them refused by
\* validate_proxy, answered 400 after an earlier update went through.
C13_Witness ==
    /\ last.op = "update_proxies"
    /\ last.status = 400
    /\ up.request.validate
    /\ Len(up.request.proxies) = Len(db)
    /\ Accepted(up) = Len(db) - 1
    /\ db # StoredAccounts

(***************************************************************************)
(* Properties of register_account                                          *)
(***************************************************************************)
\* The remote calls of the workflow, in the order of its steps.
WorkflowCalls == <<"get_nonce", "register", "get_communities_ids", "onboarding">>

\* The rows the store holds for the wallet of the call in progress.
Persisted == {k \in DOMAIN db : db[k].wallet_address = wf.address}

\* C17: the steps of one work item run strictly in the order wallet, nonce,
\* login, communities, onboarding, persist; the first step that raises ends
\* the item, no later step is performed, and no account is persisted for
\* an item that failed.
C17_StepsInOrder ==
    /\ Len(wf.calls) <= Len(WorkflowCalls)
    /\ \A k \in DOMAIN wf.calls : wf.calls[k] = WorkflowCalls[k]
    /\ wf.calls # <<>> => wf.address # ""
    /\ (wf.pc \in {"db_commit", "db_refresh"} \/ Persisted # {})
          => (wf.calls = WorkflowCalls /\ wf.error = "none")
    /\ wf.error # "none" => (wf.pc = "idle" /\ Persisted = {})
    /\ wf.result # <<>> => Cardinality(Persisted) = 1

\* C17's case: the third remote call raised; the item ended there, with no
\* onboarding and no account.
C17_Witness ==
    /\ wf.pc = "idle"
    /\ wf.error # "none"
    /\ wf.calls = SubSeq(WorkflowCalls, 1, 3)
    /\ Persisted = {}

\* The other side of C17: an item that went through every step.
C17_WitnessPersisted ==
    /\ wf.pc = "idle"
    /\ wf.result # <<>>
    /\ wf.calls = WorkflowCalls

\* C18: a token with less than an hour left never makes the workflow fail:
\* set_auth_token, given such a token, re-authenticates (its nonce fetch
\* follows the login) and the workflow goes on.
C18_ShortTokenRefreshed ==
    (wf.time_left # <<>> /\ wf.time_left[1] < RefreshMargin)
       => /\ wf.error # "AttributeError"
          /\ Len(wf.calls) >= 3
          /\ wf.calls[3] = "get_nonce"

Min(a, b) == IF a < b THEN a ELSE b

\* C19: the onboarding sample has min(3, listed) communities: when the
\* remote service lists fewer than 3, onboarding is sent those and the item
\* is not failed for it.
C19_SampleAtMostListed ==
    wf.communities # <<>>
       => /\ wf.sample # <<>>
          /\ Cardinality(wf.sample[1]) = Min(3, wf.communities[1])
          /\ wf.error # "ValueError"

====
